---------------------------- MODULE Spec2Model ----------------------------
(***************************************************************************)
(* The Ising-model Monte Carlo engine of src/src/Ising_Model/IsingModel.py *)
(* as a state machine: construction of an IsingModel on a networkx graph,  *)
(* the public calls flip_spin, calculate_energy, calculate_magnetization,  *)
(* monte_carlo_step and simulate, and the statement-level steps inside     *)
(* monte_carlo_step and simulate; two threads calling simulate on the      *)
(* same object, unsynchronised; identify_susceptible_users of              *)
(* src/src/Ising_Model/ising.py; and fetch_comments of                     *)
(* src/src/data_processing/scrape.py.                                      *)
(*                                                                         *)
(* Conventions                                                             *)
(*   - a graph is [nodes |-> sequence of distinct node identifiers in the  *)
(*     iteration order of graph.nodes(), edges |-> set of undirected       *)
(*     edges], an edge being the set of its end points ({v} is a           *)
(*     self-loop, which networkx.Graph allows);                            *)
(*   - the spin array is a function 0..n_nodes-1 -> {-1,1} (0-based, as    *)
(*     the numpy array is);                                                *)
(*   - a temperature is an integer number of thousandths (2000 is 2.0,     *)
(*     1 is 0.001, 0 is 0.0, -1000 is -1.0);                               *)
(*   - a value of random.random() is a draw code k in 0..UBits+1:          *)
(*     0 is the largest float below 1, k in 1..UBits is 2^-k, and          *)
(*     UBits+1 is 0.0;                                                     *)
(*   - a quotient a / b of the code is kept as the pair [num, den].        *)
(***************************************************************************)
EXTENDS Integers, Sequences, FiniteSets

(***************************************************************************)
(* Bounds of the model.                                                    *)
(***************************************************************************)
\* Largest number of nodes of a graph monte_carlo_step is driven on.
MaxNodes == 3
\* Largest number of nodes of a graph simulate is driven on.
MaxSimNodes == 2
\* Longest temperature schedule passed to simulate.
MaxTemps == 2
\* Largest steps_per_temperature passed to simulate.
MaxSteps == 2
\* Resolution of the modelled random draws: the draws 2^-1 .. 2^-UBits.
UBits == 2

(***************************************************************************)
(* Inputs.                                                                 *)
(***************************************************************************)
\* Temperatures (in thousandths): -1.0, 0.0, 0.001 and 2.0.
TempValues == {-1000, 0, 1, 2000}

\* All sequences over S of length at most n.
SeqsUpTo(S, n) == UNION {[1..k -> S] : k \in 0..n}

\* Node identifiers 0..n-1 in ascending order.
Ascending(n) == [i \in 1..n |-> i - 1]

\* Node identifiers 0..n-1 in descending order.
Descending(n) == [i \in 1..n |-> n - i]

\* The undirected edges over the node identifiers 0..n-1; with loops, the
\* self-loops {v} as well.
PossibleEdges(n, loops) ==
    {{a, b} : a \in 0..(n - 1), b \in 0..(n - 1)} \
        (IF loops THEN {} ELSE {{a} : a \in 0..(n - 1)})

\* The graphs on exactly n nodes, the node collection iterating in ascending
\* or in descending order of the identifiers.
GraphsOn(n, loops) ==
    {[nodes |-> ns, edges |-> es] :
        ns \in {Ascending(n), Descending(n)},
        es \in SUBSET PossibleEdges(n, loops)}

\* The 4-node cycle 0-1, 1-2, 2-3, 3-0.
Cycle4 == [nodes |-> Ascending(4), edges |-> {{0, 1}, {1, 2}, {2, 3}, {3, 0}}]

\* The graphs monte_carlo_step is driven on: every graph on 0..MaxNodes
\* nodes, self-loops allowed, and the 4-node cycle.
Graphs == UNION {GraphsOn(n, TRUE) : n \in 0..MaxNodes} \cup {Cycle4}

\* The graphs simulate is driven on: every graph without self-loops on
\* 0..MaxSimNodes nodes, the nodes iterating in ascending order.
SimGraphs ==
    {g \in UNION {GraphsOn(n, FALSE) : n \in 0..MaxSimNodes} :
        g.nodes = Ascending(Len(g.nodes))}

(***************************************************************************)
(* Pure parts of the code.                                                 *)
(***************************************************************************)
Spin == {-1, 1}

\* np.random.choice([-1, 1], size=n): any array of n spins.
RandomSpins(n) == [0..(n - 1) -> Spin]

\* The slots numbered from 1: enumerate(graph.nodes(), 1).
BuildNodeToIdx_from_one(g) ==
    [v \in {g.nodes[i] : i \in 1..Len(g.nodes)} |->
        CHOOSE i \in 1..Len(g.nodes) : g.nodes[i] = v]

\* {node: idx for idx, node in enumerate(graph.nodes())}
BuildNodeToIdx(g) ==
    [v \in {g.nodes[i] : i \in 1..Len(g.nodes)} |->
        (CHOOSE i \in 1..Len(g.nodes) : g.nodes[i] = v) - 1]

\* {idx: node for node, idx in self.node_to_idx.items()}
BuildIdxToNode(n2i) ==
    [i \in {n2i[v] : v \in DOMAIN n2i} |->
        CHOOSE v \in DOMAIN n2i : n2i[v] = i]

\* One end point of an edge and the other (the same one for a self-loop).
EdgeFirst(e) == CHOOSE a \in e : TRUE
EdgeSecond(e) == IF Cardinality(e) = 1 THEN EdgeFirst(e)
                 ELSE CHOOSE b \in e : b # EdgeFirst(e)

\* The loop of calculate_energy over a set of edges: energy -= s1 * s2.
RECURSIVE EnergyLoop(_, _, _)
EnergyLoop(es, n2i, s) ==
    IF es = {} THEN 0
    ELSE LET e == CHOOSE x \in es : TRUE
         IN  EnergyLoop(es \ {e}, n2i, s)
                 - s[n2i[EdgeFirst(e)]] * s[n2i[EdgeSecond(e)]]

\* calculate_energy reading the spin array at the node identifiers
\* themselves instead of at their slots.
calculate_energy_unmapped(g, n2i, s) ==
    EnergyLoop(g.edges, [v \in DOMAIN n2i |-> v], s)

\* The energy summed node by node over each node's neighbours, which meets
\* every edge once per end point.
calculate_energy_per_endpoint(g, n2i, s) ==
    EnergyLoop(g.edges, n2i, s)
        + EnergyLoop({e \in g.edges : Cardinality(e) = 2}, n2i, s)

\* IsingModel.calculate_energy
calculate_energy(g, n2i, s) == EnergyLoop(g.edges, n2i, s)

\* np.sum over the slots 0..k-1 of the spin array.
RECURSIVE SumSpins(_, _)
SumSpins(s, k) == IF k = 0 THEN 0 ELSE SumSpins(s, k - 1) + s[k - 1]

\* IsingModel.calculate_magnetization
calculate_magnetization(s, n) == SumSpins(s, n)

\* flip_spin whose product is never stored: self.spins[node] * -1.
flip_spin_not_stored(s, n, node) == s

\* flip_spin written for spins kept as 0/1: self.spins[node] = 1 - self.spins[node].
flip_spin_zero_one(s, n, node) ==
    LET i == IF node < 0 THEN n + node ELSE node
    IN  [s EXCEPT ![i] = 1 - s[i]]

\* The flip landing one slot further on.
flip_spin_next_slot(s, n, node) ==
    LET i == IF node < 0 THEN n + node ELSE node
        k == (i + 1) % n
    IN  [s EXCEPT ![k] = -s[k]]

\* IsingModel.flip_spin: self.spins[node] *= -1; a negative index counts
\* from the end of the array.
flip_spin(s, n, node) ==
    LET i == IF node < 0 THEN n + node ELSE node
    IN  [s EXCEPT ![i] = -s[i]]

\* The magnitude left out: the signed value itself.
Abs_signed(x) == x

\* np.abs
Abs(x) == IF x < 0 THEN -x ELSE x

\* The difference taken the wrong way round.
EnergyChange_swapped(cur, new) == cur - new

\* delta_energy = new_energy - current_energy
EnergyChange(cur, new) == new - cur

\* list.insert(0, x) in place of list.append(x).
AppendRecord_front(list, x) == <<x>> \o list

\* list.append
AppendRecord(list, x) == Append(list, x)

\* a / b of the code, kept exact.
Ratio(a, b) == [num |-> a, den |-> b]

(***************************************************************************)
(* random.random() >= np.exp(-delta_energy / temperature)                  *)
(***************************************************************************)
\* ln 2 in millionths.
Ln2Micro == 693147
\* np.exp(-x) is 0.0 in binary64 once x exceeds 745.133 (thousandths here).
ExpUnderflowMilli == 745133

Draws == 0..(UBits + 1)
NoDraw == -1

\* u < np.exp(-d / T) for d > 0, the draw code k and the temperature t.
\*   T < 0 : -d/T > 0, exp is at least 1.0 (up to inf) and every u is below;
\*   T = 0 : -d/0.0 is -inf (numpy warns and goes on), exp is 0.0;
\*   T > 0 : exp is 0.0 when it underflows; otherwise it lies strictly
\*           between 0.0 and the largest float below 1, and 2^-k is below
\*           exp(-x) iff x < k ln 2.  x is taken to thousandths, which is
\*           exact unless d/T lies within 0.001 of a multiple of ln 2.
DrawBelowExp(k, d, t) ==
    IF t < 0 THEN TRUE
    ELSE IF t = 0 THEN FALSE
    ELSE LET xm == (d * 1000000) \div t
         IN  IF xm > ExpUnderflowMilli THEN FALSE
             ELSE IF k = UBits + 1 THEN TRUE
             ELSE IF k = 0 THEN FALSE
             ELSE xm * 1000 < Ln2Micro * k

(***************************************************************************)
(* State.                                                                  *)
(***************************************************************************)
VARIABLES
    graph,                  \* the networkx graph handed to __init__
    pc,                     \* where control is
    err,                    \* the exception that ended the call, or "none"
    n_nodes,                \* self.n_nodes
    node_to_idx,            \* self.node_to_idx
    idx_to_node,            \* self.idx_to_node
    spins,                  \* self.spins
    caller,                 \* who called monte_carlo_step: "user", "simulate"
    temperature,            \* monte_carlo_step's argument
    node,                   \* monte_carlo_step's loop variable, -1 before the loop
    current_energy,         \* monte_carlo_step's locals
    new_energy,
    delta_energy,
    u,                      \* the value random.random() gave at the last visit
    pre_spins,              \* history: the spins when the current visit began
    sweep_spins,            \* history: the spins when monte_carlo_step began
    temperatures,           \* simulate's arguments
    steps_per_temperature,
    ti,                     \* number of temperatures simulate's loop has taken
    step,                   \* number of sweeps the inner loop has started
    energy_data,            \* simulate's result lists
    magnetization_data,
    correlation_data,
    record_iter,            \* history: the iteration each record was made in
    events,                 \* history: what this call of simulate has done
    result,                 \* what the latest calculate_* call returned
    calls,                  \* the frames of the simulate calls of two threads
    spins_id,               \* which array object is bound to self.spins
    susc,                   \* ising.py: the susceptibility analysis
    scrape                  \* scrape.py: one call of fetch_comments

vars == <<graph, pc, err, n_nodes, node_to_idx, idx_to_node, spins, caller,
          temperature, node, current_energy, new_energy, delta_energy, u,
          pre_spins, sweep_spins, temperatures, steps_per_temperature, ti, step,
          energy_data, magnetization_data, correlation_data, record_iter,
          events, result, calls, spins_id, susc,
          scrape>>

\* The variables of the other call and of the other programs.
otherVars == <<calls, spins_id, susc, scrape>>

engineVars == <<graph, n_nodes, node_to_idx, idx_to_node>>
stepVars == <<temperature, node, current_energy, new_energy, delta_energy,
              u, pre_spins, sweep_spins>>
simVars == <<temperatures, steps_per_temperature, ti, step, energy_data,
             magnetization_data, correlation_data, record_iter>>

\* No monte_carlo_step frame: its argument and locals do not exist.
NoStepFrame ==
    /\ temperature = 0
    /\ node = -1
    /\ current_energy = 0
    /\ new_energy = 0
    /\ delta_energy = 0
    /\ u = NoDraw
    /\ pre_spins = <<>>
    /\ sweep_spins = <<>>

\* No simulate frame.
NoSimFrame ==
    /\ temperatures = <<>>
    /\ steps_per_temperature = 0
    /\ ti = 0
    /\ step = 0
    /\ energy_data = <<>>
    /\ magnetization_data = <<>>
    /\ correlation_data = <<>>
    /\ record_iter = <<>>

\* No value returned by a calculate_* call is held.
NoResult == [op |-> "none", value |-> 0]

\* The threads that call simulate on the one object.
Threads == {1, 2}

\* The frame of a thread that has not called simulate.
NoCall ==
    [pc |-> "none", temperatures |-> <<>>, steps_per_temperature |-> 0,
     ti |-> 0, step |-> 0, node |-> -1, ret |-> "", flip_ret |-> "",
     edges |-> {}, s1 |-> 0, energy |-> 0, current_energy |-> 0,
     delta_energy |-> 0, ref |-> 0, val |-> 0,
     avg_energy |-> [num |-> 0, den |-> 1],
     avg_magnetization |-> [num |-> 0, den |-> 1],
     energy_data |-> <<>>, magnetization_data |-> <<>>,
     correlation_data |-> <<>>]

\* No thread has called simulate.
NoCalls == [t \in Threads |-> NoCall]

\* ising.py and scrape.py are not running.
NoSusc == [pc |-> "none"]
NoScrape == [pc |-> "none"]

NoOtherPrograms ==
    /\ calls = NoCalls
    /\ spins_id = 0
    /\ susc = NoSusc
    /\ scrape = NoScrape

\* The IsingModel object is not yet constructed on a graph of gs.
EngineInit(gs) ==
    /\ graph \in gs
    /\ pc = "new"
    /\ err = "none"
    /\ n_nodes = 0
    /\ node_to_idx = <<>>
    /\ idx_to_node = <<>>
    /\ spins = <<>>
    /\ caller = "none"
    /\ NoStepFrame
    /\ NoSimFrame
    /\ events = <<>>
    /\ result = NoResult

InitOn(gs) ==
    /\ EngineInit(gs)
    /\ NoOtherPrograms

Init == InitOn(SimGraphs)

StepInit == InitOn(Graphs)

(***************************************************************************)
(* IsingModel.__init__                                                     *)
(***************************************************************************)
Construct ==
    /\ pc = "new"
    /\ n_nodes' = Len(graph.nodes)
    /\ node_to_idx' = BuildNodeToIdx(graph)
    /\ idx_to_node' = BuildIdxToNode(node_to_idx')
    /\ spins' \in RandomSpins(n_nodes')
    /\ pc' = "idle"
    /\ UNCHANGED <<graph, err, caller>>
    /\ UNCHANGED stepVars
    /\ UNCHANGED simVars
    /\ UNCHANGED <<events, result>>
    /\ UNCHANGED otherVars

(***************************************************************************)
(* A call of flip_spin(i) on the constructed model.                        *)
(***************************************************************************)
FlipSpin ==
    /\ pc = "idle"
    /\ \E i \in (-n_nodes)..(n_nodes - 1) :
           spins' = flip_spin(spins, n_nodes, i)
    /\ UNCHANGED <<pc, err, caller>>
    /\ UNCHANGED engineVars
    /\ UNCHANGED stepVars
    /\ UNCHANGED simVars
    /\ result' = NoResult
    /\ UNCHANGED events
    /\ UNCHANGED otherVars

(***************************************************************************)
(* monte_carlo_step                                                        *)
(***************************************************************************)
\* A call of monte_carlo_step(t) on the constructed model.
StepCall ==
    /\ pc = "idle"
    /\ \E t \in TempValues : temperature' = t
    /\ caller' = "user"
    /\ pc' = "mc_for"
    /\ sweep_spins' = spins
    /\ UNCHANGED <<node, current_energy, new_energy, delta_energy, u,
                   pre_spins>>
    /\ UNCHANGED <<err, spins>>
    /\ UNCHANGED engineVars
    /\ UNCHANGED simVars
    /\ result' = NoResult
    /\ UNCHANGED events
    /\ UNCHANGED otherVars

\* Lines 79-87: the loop takes the next slot, flips it on trial and
\* computes the energy change.
Trial ==
    /\ pc = "mc_for"
    /\ node + 1 < n_nodes
    /\ node' = node + 1
    /\ pre_spins' = spins
    /\ current_energy' = calculate_energy(graph, node_to_idx, spins)
    /\ spins' = flip_spin(spins, n_nodes, node')
    /\ new_energy' = calculate_energy(graph, node_to_idx, spins')
    /\ delta_energy' = EnergyChange(current_energy', new_energy')
    /\ u' = NoDraw
    /\ pc' = "mc_if"
    /\ UNCHANGED <<err, caller, temperature, sweep_spins>>
    /\ UNCHANGED engineVars
    /\ UNCHANGED simVars
    /\ UNCHANGED <<events, result>>
    /\ UNCHANGED otherVars

\* The criterion comparing the draw with 1/2 in place of the exponential.
Metropolis_fixed_threshold(s, n, i, d, k, t) ==
    IF d > 0 /\ k \in {0, 1} THEN flip_spin(s, n, i) ELSE s

\* The criterion with the comparison turned round: flips back when the draw
\* is below the exponential.
Metropolis_inverted(s, n, i, d, k, t) ==
    IF d > 0 /\ DrawBelowExp(k, d, t) THEN flip_spin(s, n, i) ELSE s

\* The spins line 90-91 leave, the draw being k (NoDraw: none was made).
Metropolis(s, n, i, d, k, t) ==
    IF d > 0 /\ ~DrawBelowExp(k, d, t) THEN flip_spin(s, n, i) ELSE s

\* Lines 90-91: the Metropolis criterion.  random.random() is called only
\* when delta_energy > 0 (the "and" short-circuits).
Decide ==
    /\ pc = "mc_if"
    /\ IF delta_energy > 0 THEN u' \in Draws ELSE u' = NoDraw
    /\ spins' = Metropolis(spins, n_nodes, node, delta_energy, u',
                           temperature)
    /\ pc' = "mc_for"
    /\ UNCHANGED <<err, caller, temperature, node, current_energy,
                   new_energy, delta_energy, pre_spins, sweep_spins>>
    /\ UNCHANGED engineVars
    /\ UNCHANGED simVars
    /\ UNCHANGED <<events, result>>
    /\ UNCHANGED otherVars

\* The loop of line 79 is exhausted: monte_carlo_step returns.
StepReturn ==
    /\ pc = "mc_for"
    /\ node + 1 >= n_nodes
    /\ pc' = IF caller = "simulate" THEN "sim_steps" ELSE "idle"
    /\ caller' = "none"
    /\ temperature' = 0
    /\ node' = -1
    /\ current_energy' = 0
    /\ new_energy' = 0
    /\ delta_energy' = 0
    /\ u' = NoDraw
    /\ pre_spins' = <<>>
    /\ sweep_spins' = <<>>
    /\ UNCHANGED <<err, spins>>
    /\ UNCHANGED engineVars
    /\ UNCHANGED simVars
    /\ events' = IF caller = "simulate" THEN Append(events, "sweep")
                                      ELSE events
    /\ UNCHANGED result
    /\ UNCHANGED otherVars

(***************************************************************************)
(* simulate                                                                *)
(***************************************************************************)
\* A call of simulate(temperatures, steps_per_temperature): lines 107-109.
SimulateCall ==
    /\ pc = "idle"
    /\ temperatures' \in SeqsUpTo(TempValues, MaxTemps)
    /\ steps_per_temperature' \in 0..MaxSteps
    /\ ti' = 0
    /\ step' = 0
    /\ energy_data' = <<>>
    /\ magnetization_data' = <<>>
    /\ correlation_data' = <<>>
    /\ record_iter' = <<>>
    /\ pc' = "sim_for"
    /\ UNCHANGED <<err, spins, caller>>
    /\ UNCHANGED engineVars
    /\ UNCHANGED stepVars
    /\ events' = <<>>
    /\ result' = NoResult
    /\ UNCHANGED otherVars

\* The reset that keeps the configuration the last temperature ended with.
ResetSpins_carry_over(s, n) == {s}

\* Line 113: the configuration the reset installs, whatever s was before.
ResetSpins(s, n) == RandomSpins(n)

\* Lines 112-113: the loop takes the next temperature and resets the spins.
NextTemperature ==
    /\ pc = "sim_for"
    /\ ti < Len(temperatures)
    /\ ti' = ti + 1
    /\ spins' \in ResetSpins(spins, n_nodes)
    /\ step' = 0
    /\ pc' = "sim_steps"
    /\ UNCHANGED <<err, caller, temperatures, steps_per_temperature,
                   energy_data, magnetization_data, correlation_data,
                   record_iter>>
    /\ UNCHANGED engineVars
    /\ UNCHANGED stepVars
    /\ events' = Append(events, "reset")
    /\ UNCHANGED result
    /\ UNCHANGED otherVars

\* Lines 115-116: one more sweep at the current temperature.
SweepCall ==
    /\ pc = "sim_steps"
    /\ step < steps_per_temperature
    /\ step' = step + 1
    /\ temperature' = temperatures[ti]
    /\ caller' = "simulate"
    /\ pc' = "mc_for"
    /\ sweep_spins' = spins
    /\ UNCHANGED <<node, current_energy, new_energy, delta_energy, u,
                   pre_spins>>
    /\ UNCHANGED <<err, spins, temperatures, steps_per_temperature, ti,
                   energy_data, magnetization_data, correlation_data,
                   record_iter>>
    /\ UNCHANGED engineVars
    /\ UNCHANGED <<events, result>>
    /\ UNCHANGED otherVars

\* Lines 119-125: the record of the current temperature.  On a model with
\* no nodes calculate_energy() / self.n_nodes is 0 / 0 of Python integers,
\* which raises ZeroDivisionError; the lists die with the frame.
Extract ==
    /\ pc = "sim_steps"
    /\ step >= steps_per_temperature
    /\ IF n_nodes = 0
       THEN /\ pc' = "raised"
            /\ err' = "ZeroDivisionError"
            /\ energy_data' = <<>>
            /\ magnetization_data' = <<>>
            /\ correlation_data' = <<>>
            /\ record_iter' = <<>>
            /\ events' = events
       ELSE /\ pc' = "sim_for"
            /\ err' = err
            /\ energy_data' = AppendRecord(energy_data,
                   Ratio(calculate_energy(graph, node_to_idx, spins), n_nodes))
            /\ magnetization_data' = AppendRecord(magnetization_data,
                   Ratio(Abs(calculate_magnetization(spins, n_nodes)), n_nodes))
            /\ correlation_data' = AppendRecord(correlation_data,
                   Ratio(SumSpins(spins, n_nodes), n_nodes))
            /\ record_iter' = AppendRecord(record_iter, ti)
            /\ events' = Append(events, "extract")
    /\ UNCHANGED <<spins, caller, temperatures, steps_per_temperature, ti,
                   step>>
    /\ UNCHANGED engineVars
    /\ UNCHANGED stepVars
    /\ UNCHANGED result
    /\ UNCHANGED otherVars

\* Line 127: the loop of line 112 is exhausted and simulate returns the lists.
SimulateReturn ==
    /\ pc = "sim_for"
    /\ ti >= Len(temperatures)
    /\ pc' = "returned"
    /\ UNCHANGED <<err, spins, caller>>
    /\ UNCHANGED engineVars
    /\ UNCHANGED stepVars
    /\ UNCHANGED simVars
    /\ UNCHANGED <<events, result>>
    /\ UNCHANGED otherVars

(***************************************************************************)
(* Calls of calculate_energy() and calculate_magnetization() on the        *)
(* constructed model.                                                      *)
(***************************************************************************)
\* Lines 36-52: the energy is computed from the edges and the spins and
\* returned; nothing is assigned to self.
EnergyQuery ==
    /\ pc = "idle"
    /\ result' = [op |-> "calculate_energy",
                  value |-> calculate_energy(graph, node_to_idx, spins)]
    /\ UNCHANGED <<pc, err, spins, caller, events>>
    /\ UNCHANGED engineVars
    /\ UNCHANGED stepVars
    /\ UNCHANGED simVars
    /\ UNCHANGED otherVars

\* The magnetization accumulated in place: the spins are overwritten by
\* their running magnitudes.
MagnetizationQuery_in_place ==
    /\ pc = "idle"
    /\ spins' = [i \in DOMAIN spins |-> Abs(spins[i])]
    /\ result' = [op |-> "calculate_magnetization",
                  value |-> calculate_magnetization(spins, n_nodes)]
    /\ UNCHANGED <<pc, err, caller, events>>
    /\ UNCHANGED engineVars
    /\ UNCHANGED stepVars
    /\ UNCHANGED simVars
    /\ UNCHANGED otherVars

\* Lines 54-61: np.sum(self.spins) is returned; nothing is assigned.
MagnetizationQuery ==
    /\ pc = "idle"
    /\ result' = [op |-> "calculate_magnetization",
                  value |-> calculate_magnetization(spins, n_nodes)]
    /\ UNCHANGED <<pc, err, spins, caller, events>>
    /\ UNCHANGED engineVars
    /\ UNCHANGED stepVars
    /\ UNCHANGED simVars
    /\ UNCHANGED otherVars

Next ==
    \/ Construct
    \/ FlipSpin
    \/ EnergyQuery
    \/ MagnetizationQuery
    \/ StepCall
    \/ Trial
    \/ Decide
    \/ StepReturn
    \/ SimulateCall
    \/ NextTemperature
    \/ SweepCall
    \/ Extract
    \/ SimulateReturn

\* The whole engine: construction, flip_spin, monte_carlo_step, simulate.
Spec == Init /\ [][Next]_vars

\* The engine without simulate, on the larger family of graphs.
StepNext ==
    \/ Construct
    \/ FlipSpin
    \/ EnergyQuery
    \/ MagnetizationQuery
    \/ StepCall
    \/ Trial
    \/ Decide
    \/ StepReturn

StepSpec == StepInit /\ [][StepNext]_vars

(***************************************************************************)
(* Two calls of simulate on the same IsingModel object, made by two        *)
(* threads.  The code takes no lock, so the calls interleave between any   *)
(* two accesses of self.spins: each step below is one access (one element  *)
(* read, one element store, one np.sum / np.mean over the array, one       *)
(* rebinding of the attribute) together with the local computation around *)
(* it.  The arguments, loop counters, locals and result lists of a call    *)
(* are its own (calls[t]); self.spins is the one attribute of the object,  *)
(* and spins_id tells the array objects bound to it apart.                 *)
(***************************************************************************)
\* Longest schedule of the second thread's call.
MaxTemps2 == 1
\* Largest steps_per_temperature of either thread's call.
MaxSteps2 == 1

\* The graphs the two interleaved calls are driven on.
ConcGraphs == {g \in SimGraphs : Len(g.nodes) = MaxSimNodes}

ConcInit == InitOn(ConcGraphs)

\* The temperatures of the interleaved calls: 0.0 and 2.0.
ConcTempValues == {0, 2000}

\* The schedules thread t may pass: the first thread up to MaxTemps
\* temperatures, the second up to MaxTemps2.
ConcTemperatures(t) ==
    IF t = 1 THEN SeqsUpTo(ConcTempValues, MaxTemps)
    ELSE SeqsUpTo(ConcTempValues, MaxTemps2)

\* The steps_per_temperature a thread may pass.
ConcSteps(t) == 0..MaxSteps2

\* What a step of a thread leaves alone besides the spins and the frames.
ObjectUnchanged ==
    /\ UNCHANGED <<graph, pc, err, caller, events, result, susc, scrape>>
    /\ UNCHANGED engineVars
    /\ UNCHANGED stepVars
    /\ UNCHANGED simVars

\* The frame with the locals of a slot visit dropped.
VisitOver(f) ==
    [f EXCEPT !.pc = "mc_for", !.ret = "", !.flip_ret = "", !.energy = 0,
              !.current_energy = 0, !.delta_energy = 0, !.ref = 0, !.val = 0]

\* Lines 43-44: calculate_energy is entered, to return to line ret.
EnterEnergy(f, ret) ==
    [f EXCEPT !.pc = "ce_s1", !.ret = ret, !.edges = graph.edges,
              !.energy = 0]

\* Lines 107-109.
CallSimulate(t) ==
    /\ pc = "idle"
    /\ calls[t].pc = "none"
    /\ \E ts \in ConcTemperatures(t), k \in ConcSteps(t) :
           calls' = [calls EXCEPT ![t] =
                        [@ EXCEPT !.pc = "sim_for", !.temperatures = ts,
                                  !.steps_per_temperature = k]]
    /\ UNCHANGED <<spins, spins_id>>
    /\ ObjectUnchanged

\* Lines 112-113: a new array is bound to self.spins.
CallReset(t) ==
    /\ pc = "idle"
    /\ calls[t].pc = "sim_for"
    /\ calls[t].ti < Len(calls[t].temperatures)
    /\ spins' \in ResetSpins(spins, n_nodes)
    /\ spins_id' = spins_id + 1
    /\ calls' = [calls EXCEPT ![t] =
                    [@ EXCEPT !.pc = "sim_steps", !.ti = @ + 1, !.step = 0]]
    /\ ObjectUnchanged

\* Line 127.
CallReturn(t) ==
    /\ pc = "idle"
    /\ calls[t].pc = "sim_for"
    /\ calls[t].ti >= Len(calls[t].temperatures)
    /\ calls' = [calls EXCEPT ![t] = [@ EXCEPT !.pc = "returned"]]
    /\ UNCHANGED <<spins, spins_id>>
    /\ ObjectUnchanged

\* Lines 115-116: monte_carlo_step is entered.
CallSweep(t) ==
    /\ pc = "idle"
    /\ calls[t].pc = "sim_steps"
    /\ calls[t].step < calls[t].steps_per_temperature
    /\ calls' = [calls EXCEPT ![t] =
                    [@ EXCEPT !.pc = "mc_for", !.step = @ + 1, !.node = -1]]
    /\ UNCHANGED <<spins, spins_id>>
    /\ ObjectUnchanged

\* Lines 79-80: the next slot; calculate_energy is entered.
CallNextSlot(t) ==
    /\ pc = "idle"
    /\ calls[t].pc = "mc_for"
    /\ calls[t].node + 1 < n_nodes
    /\ calls' = [calls EXCEPT ![t] =
                    EnterEnergy([@ EXCEPT !.node = @ + 1], "80")]
    /\ UNCHANGED <<spins, spins_id>>
    /\ ObjectUnchanged

\* The loop of line 79 is exhausted.
CallSweepReturn(t) ==
    /\ pc = "idle"
    /\ calls[t].pc = "mc_for"
    /\ calls[t].node + 1 >= n_nodes
    /\ calls' = [calls EXCEPT ![t] = [@ EXCEPT !.pc = "sim_steps",
                                               !.node = -1]]
    /\ UNCHANGED <<spins, spins_id>>
    /\ ObjectUnchanged

\* Line 48: s1 = self.spins[...] for the next edge.
CallEnergyFirst(t) ==
    /\ pc = "idle"
    /\ calls[t].pc = "ce_s1"
    /\ calls[t].edges # {}
    /\ LET e == CHOOSE x \in calls[t].edges : TRUE
       IN  calls' = [calls EXCEPT ![t] =
                        [@ EXCEPT !.pc = "ce_s2",
                                  !.s1 = spins[node_to_idx[EdgeFirst(e)]]]]
    /\ UNCHANGED <<spins, spins_id>>
    /\ ObjectUnchanged

\* Lines 49-50: s2 = self.spins[...]; energy -= s1 * s2.
CallEnergySecond(t) ==
    /\ pc = "idle"
    /\ calls[t].pc = "ce_s2"
    /\ LET e == CHOOSE x \in calls[t].edges : TRUE
       IN  calls' = [calls EXCEPT ![t] =
                        [@ EXCEPT !.pc = "ce_s1",
                                  !.energy = @ - calls[t].s1
                                      * spins[node_to_idx[EdgeSecond(e)]],
                                  !.edges = @ \ {e},
                                  !.s1 = 0]]
    /\ UNCHANGED <<spins, spins_id>>
    /\ ObjectUnchanged

\* Line 52: calculate_energy returns to line 80, 84 (and 87) or 119.
CallEnergyReturn(t) ==
    /\ pc = "idle"
    /\ calls[t].pc = "ce_s1"
    /\ calls[t].edges = {}
    /\ LET f == calls[t]
       IN  calls' = [calls EXCEPT ![t] =
               IF f.ret = "80"
               THEN [f EXCEPT !.pc = "flip_load", !.flip_ret = "83",
                              !.current_energy = f.energy, !.energy = 0]
               ELSE IF f.ret = "84"
               THEN [f EXCEPT !.pc = "mc_if", !.energy = 0,
                              !.delta_energy =
                                  EnergyChange(f.current_energy, f.energy)]
               ELSE IF n_nodes = 0
               THEN [f EXCEPT !.pc = "raised", !.energy = 0,
                              !.energy_data = <<>>,
                              !.magnetization_data = <<>>,
                              !.correlation_data = <<>>]
               ELSE [f EXCEPT !.pc = "sim_120", !.energy = 0, !.ret = "",
                              !.avg_energy = Ratio(f.energy, n_nodes)]]
    /\ UNCHANGED <<spins, spins_id>>
    /\ ObjectUnchanged

\* Line 70, first half: self.spins and its element at node are loaded.
CallFlipLoad(t) ==
    /\ pc = "idle"
    /\ calls[t].pc = "flip_load"
    /\ calls' = [calls EXCEPT ![t] =
                    [@ EXCEPT !.pc = "flip_store", !.ref = spins_id,
                              !.val = spins[calls[t].node]]]
    /\ UNCHANGED <<spins, spins_id>>
    /\ ObjectUnchanged

\* Line 70, second half: the product is stored into the array that was
\* loaded, which is no longer self.spins if a reset came in between.  Then
\* line 84 enters calculate_energy, or the visit is over (line 91).
CallFlipStore(t) ==
    /\ pc = "idle"
    /\ calls[t].pc = "flip_store"
    /\ spins' = IF calls[t].ref = spins_id
                THEN [spins EXCEPT ![calls[t].node] = -calls[t].val]
                ELSE spins
    /\ calls' = [calls EXCEPT ![t] =
                    IF calls[t].flip_ret = "83"
                    THEN EnterEnergy([@ EXCEPT !.ref = 0, !.val = 0], "84")
                    ELSE VisitOver(@)]
    /\ UNCHANGED spins_id
    /\ ObjectUnchanged

\* Line 90: the Metropolis criterion; line 91 enters flip_spin.
CallDecide(t) ==
    /\ pc = "idle"
    /\ calls[t].pc = "mc_if"
    /\ LET f == calls[t]
       IN  \E k \in (IF f.delta_energy > 0 THEN Draws ELSE {NoDraw}) :
               calls' = [calls EXCEPT ![t] =
                   IF f.delta_energy > 0
                      /\ ~DrawBelowExp(k, f.delta_energy,
                                       f.temperatures[f.ti])
                   THEN [f EXCEPT !.pc = "flip_load", !.flip_ret = "91"]
                   ELSE VisitOver(f)]
    /\ UNCHANGED <<spins, spins_id>>
    /\ ObjectUnchanged

\* Line 119: calculate_energy is entered for the record.
CallExtract(t) ==
    /\ pc = "idle"
    /\ calls[t].pc = "sim_steps"
    /\ calls[t].step >= calls[t].steps_per_temperature
    /\ calls' = [calls EXCEPT ![t] = EnterEnergy(@, "119")]
    /\ UNCHANGED <<spins, spins_id>>
    /\ ObjectUnchanged

\* Line 120: np.abs(np.sum(self.spins)) / self.n_nodes.
CallMagnetization(t) ==
    /\ pc = "idle"
    /\ calls[t].pc = "sim_120"
    /\ calls' = [calls EXCEPT ![t] =
                    [@ EXCEPT !.pc = "sim_121",
                              !.avg_magnetization =
                                  Ratio(Abs(calculate_magnetization(spins,
                                                n_nodes)), n_nodes)]]
    /\ UNCHANGED <<spins, spins_id>>
    /\ ObjectUnchanged

\* Lines 121-125: np.mean(self.spins) and the three appends.
CallRecord(t) ==
    /\ pc = "idle"
    /\ calls[t].pc = "sim_121"
    /\ LET f == calls[t]
       IN  calls' = [calls EXCEPT ![t] =
               [f EXCEPT
                   !.pc = "sim_for",
                   !.energy_data = AppendRecord(@, f.avg_energy),
                   !.magnetization_data =
                       AppendRecord(@, f.avg_magnetization),
                   !.correlation_data =
                       AppendRecord(@, Ratio(SumSpins(spins, n_nodes),
                                             n_nodes)),
                   !.avg_energy = Ratio(0, 1),
                   !.avg_magnetization = Ratio(0, 1)]]
    /\ UNCHANGED <<spins, spins_id>>
    /\ ObjectUnchanged

ConcNext ==
    \/ Construct
    \/ \E t \in Threads : CallSimulate(t)
    \/ \E t \in Threads : CallReset(t)
    \/ \E t \in Threads : CallReturn(t)
    \/ \E t \in Threads : CallSweep(t)
    \/ \E t \in Threads : CallNextSlot(t)
    \/ \E t \in Threads : CallSweepReturn(t)
    \/ \E t \in Threads : CallEnergyFirst(t)
    \/ \E t \in Threads : CallEnergySecond(t)
    \/ \E t \in Threads : CallEnergyReturn(t)
    \/ \E t \in Threads : CallFlipLoad(t)
    \/ \E t \in Threads : CallFlipStore(t)
    \/ \E t \in Threads : CallDecide(t)
    \/ \E t \in Threads : CallExtract(t)
    \/ \E t \in Threads : CallMagnetization(t)
    \/ \E t \in Threads : CallRecord(t)

\* Two threads calling simulate on one object.
ConcSpec == ConcInit /\ [][ConcNext]_vars

(***************************************************************************)
(* ising.py: ising_energy and identify_susceptible_users.                  *)
(*   - the graph is a directed graph on the nodes 0..n-1, an edge being    *)
(*     the pair <<a, b>>; graph.neighbors(a) are the successors of a;      *)
(*   - the threshold is kept in halves: 1 is the default 0.5.              *)
(***************************************************************************)
\* Largest number of nodes of a graph the analysis is driven on.
MaxUsers == 2

\* Coupling constants: -1.0, 1.0 (the default), 2.0.
JValues == {-1, 1, 2}

\* Thresholds in halves: -0.5, 0.5 (the default), 1.5.
ThresholdHalves == {-1, 1, 3}

\* The calls of identify_susceptible_users(graph, J, threshold).
SuscInputs ==
    UNION {[pc : {"called"},
            behavior : [0..(n - 1) -> {-1, 1}],
            edges : SUBSET ((0..(n - 1)) \X (0..(n - 1))),
            J : JValues,
            threshold2 : ThresholdHalves,
            energy : {<<>>},
            susceptible : {<<>>}] : n \in 0..MaxUsers}

\* Lines 24-26: the sum of the behaviour of the successors of node v.
RECURSIVE InteractionSum(_, _, _)
InteractionSum(behavior, edges, v) ==
    IF edges = {} THEN 0
    ELSE LET e == CHOOSE x \in edges : TRUE
         IN  (IF e[1] = v THEN behavior[e[2]] ELSE 0)
                 + InteractionSum(behavior, edges \ {e}, v)

\* Lines 18-31: the energy dictionary of ising_energy.
ising_energy(behavior, edges, j) ==
    [v \in DOMAIN behavior |->
        -j * behavior[v] * InteractionSum(behavior, edges, v)]

\* Line 48: abs(energy) < threshold.
BelowThreshold(energy, threshold2) == 2 * Abs(energy) < threshold2

\* Line 48: the dictionary comprehension over energy_values.items().
Susceptible(energy, threshold2) ==
    [v \in {w \in DOMAIN energy : BelowThreshold(energy[w], threshold2)} |->
        energy[v]]

\* Line 45: energy_values = ising_energy(graph, J).
IsingEnergy ==
    /\ susc.pc = "called"
    /\ susc' = [susc EXCEPT !.pc = "energy",
                            !.energy = ising_energy(susc.behavior, susc.edges,
                                                    susc.J)]
    /\ UNCHANGED <<graph, pc, err, spins, caller, events, result, calls,
                   spins_id, scrape>>
    /\ UNCHANGED engineVars
    /\ UNCHANGED stepVars
    /\ UNCHANGED simVars

\* Lines 48-50: the susceptible nodes are selected and returned.
Identify ==
    /\ susc.pc = "energy"
    /\ susc' = [susc EXCEPT !.pc = "returned",
                            !.susceptible = Susceptible(susc.energy,
                                                        susc.threshold2)]
    /\ UNCHANGED <<graph, pc, err, spins, caller, events, result, calls,
                   spins_id, scrape>>
    /\ UNCHANGED engineVars
    /\ UNCHANGED stepVars
    /\ UNCHANGED simVars

\* The graph without nodes.
EmptyGraph == [nodes |-> <<>>, edges |-> {}]

SuscInit ==
    /\ EngineInit({EmptyGraph})
    /\ calls = NoCalls
    /\ spins_id = 0
    /\ scrape = NoScrape
    /\ susc \in SuscInputs

SuscNext ==
    \/ IsingEnergy
    \/ Identify

\* One call of identify_susceptible_users.
SuscSpec == SuscInit /\ [][SuscNext]_vars

(***************************************************************************)
(* scrape.py: fetch_comments.                                              *)
(*   - an author is a user name, or "None" for the None praw gives for a   *)
(*     deleted account;                                                    *)
(*   - post.comments.list() is a sequence of comments; parent = 0 is a     *)
(*     parent_id naming the post (t3_), parent = j the comment at place j  *)
(*     of the list (t1_), which comes earlier in the list.                 *)
(***************************************************************************)
\* Most comments of a post.
MaxComments == 2

Authors == {"None", "alice"}
Bodies == {"[deleted]", "hello"}

\* post.created_utc: the epoch and one day after it.
CreatedValues == {0, 86400}

\* The comment lists of length n: the parent of a comment is the post or an
\* earlier comment.
CommentLists(n) ==
    {cs \in [1..n -> [author : Authors, body : Bodies, parent : 0..n]] :
        \A p \in 1..n : cs[p].parent < p}

\* The calls of fetch_comments(post, reddit).
ScrapeInputs ==
    UNION {[pc : {"called"},
            author : Authors,
            created_utc : CreatedValues,
            comments : CommentLists(n),
            i : {0},
            post_author : {""},
            post_timestamp : {""},
            comments_data : {<<>>}] : n \in 0..MaxComments}

\* x.author.name if x.author else "[deleted]" (lines 28, 33, 43).
NameOf(author) == IF author = "None" THEN "[deleted]" ELSE author

\* Line 29: datetime.utcfromtimestamp(t).strftime("%Y-%m-%d %H:%M:%S").
FormatTimestamp(t) ==
    IF t = 0 THEN "1970-01-01 00:00:00" ELSE "1970-01-02 00:00:00"

\* Lines 25-29: the comments are loaded, the post's author and time taken.
FetchStart ==
    /\ scrape.pc = "called"
    /\ scrape' = [scrape EXCEPT
                     !.pc = "loop",
                     !.post_author = NameOf(scrape.author),
                     !.post_timestamp = FormatTimestamp(scrape.created_utc)]
    /\ UNCHANGED <<graph, pc, err, spins, caller, events, result, calls,
                   spins_id, susc>>
    /\ UNCHANGED engineVars
    /\ UNCHANGED stepVars
    /\ UNCHANGED simVars

\* Lines 46-51 and 54-59: the dictionary appended for a comment.
CommentRecord(user, to, body, timestamp) ==
    [user |-> user, replying_to |-> to, comment |-> body,
     timestamp |-> timestamp]

\* Lines 32-59: one iteration of the loop over post.comments.list().
FetchComment ==
    /\ scrape.pc = "loop"
    /\ scrape.i < Len(scrape.comments)
    /\ LET comment == scrape.comments[scrape.i + 1]
           username == NameOf(comment.author)
           parent_username ==
               NameOf(scrape.comments[comment.parent].author)
           data == scrape.comments_data
       IN  scrape' = [scrape EXCEPT
               !.i = @ + 1,
               !.comments_data =
                   IF username = "[deleted]" \/ comment.body = "[deleted]"
                   THEN data
                   ELSE IF comment.parent # 0
                   THEN IF parent_username = "[deleted]"
                        THEN data
                        ELSE Append(data,
                                 CommentRecord(username, parent_username,
                                     comment.body, scrape.post_timestamp))
                   ELSE Append(data,
                            CommentRecord(username, scrape.post_author,
                                comment.body, scrape.post_timestamp))]
    /\ UNCHANGED <<graph, pc, err, spins, caller, events, result, calls,
                   spins_id, susc>>
    /\ UNCHANGED engineVars
    /\ UNCHANGED stepVars
    /\ UNCHANGED simVars

\* Line 61: the loop is exhausted and comments_data is returned.
FetchReturn ==
    /\ scrape.pc = "loop"
    /\ scrape.i >= Len(scrape.comments)
    /\ scrape' = [scrape EXCEPT !.pc = "returned"]
    /\ UNCHANGED <<graph, pc, err, spins, caller, events, result, calls,
                   spins_id, susc>>
    /\ UNCHANGED engineVars
    /\ UNCHANGED stepVars
    /\ UNCHANGED simVars

ScrapeInit ==
    /\ EngineInit({EmptyGraph})
    /\ calls = NoCalls
    /\ spins_id = 0
    /\ susc = NoSusc
    /\ scrape \in ScrapeInputs

ScrapeNext ==
    \/ FetchStart
    \/ FetchComment
    \/ FetchReturn

\* One call of fetch_comments.
ScrapeSpec == ScrapeInit /\ [][ScrapeNext]_vars

(***************************************************************************)
(* Properties.                                                             *)
(***************************************************************************)
\* The coupling constant: calculate_energy subtracts s1 * s2 unscaled.
J == 1

RECURSIVE SumAt(_, _)
\* The sum of s over the slots of the set S.
SumAt(S, s) ==
    IF S = {} THEN 0
    ELSE LET j == CHOOSE x \in S : TRUE IN s[j] + SumAt(S \ {j}, s)

HasSelfLoop(g) == \E e \in g.edges : Cardinality(e) = 1

\* The slots of the neighbours of slot i (graph.neighbors).
NeighbourSlots(i) ==
    {node_to_idx[w] : w \in {x \in DOMAIN node_to_idx :
                                {idx_to_node[i], x} \in graph.edges}}

\* 2 * J * s_i * (sum of s_j over the neighbours j of i)
LocalDelta(s, i) == 2 * J * s[i] * SumAt(NeighbourSlots(i), s)

\* A trial flip of slot `node` has been made and its energy change computed
\* (the visit may already be decided).
DeltaComputed == pc \in {"mc_if", "mc_for"} /\ node >= 0

\* The visit of slot `node` is complete: pre_spins is the array before it,
\* delta_energy its energy change, u its draw, spins the array after it.
VisitDone == pc = "mc_for" /\ node >= 0

\* C1: on a graph without self-loops the energy change monte_carlo_step
\* computes for the trial flip of a slot equals 2 * J * s_i * (sum of the
\* neighbours' spins), s being the spins before the flip.
C1_DeltaIsLocal ==
    (DeltaComputed /\ ~HasSelfLoop(graph)) =>
        /\ delta_energy = LocalDelta(pre_spins, node)
        /\ delta_energy =
               calculate_energy(graph, node_to_idx,
                                flip_spin(pre_spins, n_nodes, node))
               - calculate_energy(graph, node_to_idx, pre_spins)

\* A trial flip of a slot with two neighbours, both aligned with it, on a
\* graph listed in descending order.
C1_Witness ==
    /\ pc = "mc_if"
    /\ ~HasSelfLoop(graph)
    /\ graph.nodes = Descending(3)
    /\ Cardinality(NeighbourSlots(node)) = 2
    /\ delta_energy = 4

\* C2: at T > 0 a visit whose delta_energy <= 0 ends with the slot negated
\* and draws nothing; a visit whose delta_energy > 0 ends with the slot
\* negated iff its draw is below exp(-delta_energy / T), and otherwise with
\* the whole array as it was before the visit.
C2_Metropolis ==
    (VisitDone /\ temperature > 0) =>
        /\ delta_energy <= 0 =>
               /\ u = NoDraw
               /\ spins = flip_spin(pre_spins, n_nodes, node)
        /\ delta_energy > 0 =>
               /\ u \in Draws
               /\ (spins[node] = -pre_spins[node])
                      <=> DrawBelowExp(u, delta_energy, temperature)
               /\ DrawBelowExp(u, delta_energy, temperature) =>
                      spins = flip_spin(pre_spins, n_nodes, node)
               /\ ~DrawBelowExp(u, delta_energy, temperature) =>
                      spins = pre_spins

\* An uphill proposal at T = 2.0 rejected on the draw 1/2 (exp(-1) = 0.37).
C2_Witness ==
    /\ VisitDone
    /\ temperature = 2000
    /\ delta_energy = 2
    /\ u = 1
    /\ spins = pre_spins

\* C3: once the model is constructed the spin array has exactly n_nodes
\* entries and each is +1 or -1, at every point of every call.
C3_SpinsAreSigns ==
    pc # "new" =>
        /\ DOMAIN spins = 0..(n_nodes - 1)
        /\ \A i \in DOMAIN spins : spins[i] \in {-1, 1}

\* Between a trial flip and its flip-back, inside a sweep of simulate.
C3_Witness ==
    /\ pc = "mc_if"
    /\ caller = "simulate"
    /\ delta_energy > 0
    /\ spins # pre_spins
    /\ n_nodes = 2

\* Some temperature of the schedule is not positive.
HasNonPositive(ts) == \E p \in 1..Len(ts) : ts[p] <= 0

\* C4 (the claim as stated): while a schedule with a non-positive
\* temperature is being simulated on a model with at least one node, no
\* sweep runs and no record is appended, the call never returns, and it
\* ends in InvalidTemperatureError.
C4_NonPositiveTemperatureRejected ==
    (n_nodes > 0 /\ HasNonPositive(temperatures)) =>
        /\ pc \notin {"mc_for", "mc_if", "returned"}
        /\ energy_data = <<>>
        /\ pc = "raised" => err = "InvalidTemperatureError"

\* C5: simulate raises nothing on a model with at least one node, and
\* nothing on an empty schedule; the three lists always hold one entry per
\* temperature taken so far, the entry at position p made in iteration p, so
\* that on return each has Len(temperatures) entries in schedule order.
C5_OneRecordPerTemperature ==
    /\ pc = "raised" => (n_nodes = 0 /\ Len(temperatures) > 0)
    /\ pc \in {"sim_for", "returned"} =>
           /\ Len(energy_data) = ti
           /\ Len(magnetization_data) = ti
           /\ Len(correlation_data) = ti
           /\ record_iter = [p \in 1..ti |-> p]
    /\ pc = "returned" =>
           /\ ti = Len(temperatures)
           /\ Len(energy_data) = Len(temperatures)
           /\ Len(magnetization_data) = Len(temperatures)
           /\ Len(correlation_data) = Len(temperatures)
           /\ record_iter = [p \in 1..Len(temperatures) |-> p]

\* simulate has returned from a schedule of two different temperatures
\* whose records differ.
C5_Witness ==
    /\ pc = "returned"
    /\ Len(temperatures) = 2
    /\ temperatures[1] # temperatures[2]
    /\ energy_data[1] # energy_data[2]

\* The configuration at the last boundary between two slot visits, and its
\* energy.
BoundarySpins == IF pc = "mc_if" THEN pre_spins ELSE spins
BoundaryEnergy == calculate_energy(graph, node_to_idx, BoundarySpins)

\* The visit just completed accepted a proposal with delta_energy > 0.
UphillAccepted == VisitDone /\ delta_energy > 0 /\ spins # pre_spins

\* A step of monte_carlo_step, a call of it or a return from it, or a step
\* of simulate between two sweeps of one temperature.
SweepStep ==
    \/ pc \in {"mc_for", "mc_if", "sim_steps"}
    \/ pc' \in {"mc_for", "mc_if"}

\* C6: no step of a run of sweeps raises the energy at the visit
\* boundaries, except the completion of a visit that accepts a proposal
\* with delta_energy > 0; so where every such proposal is rejected the
\* energy never increases, visit after visit and sweep after sweep.
C6_EnergyNeverIncreases ==
    [][(SweepStep /\ ~UphillAccepted') =>
           \/ BoundarySpins' = BoundarySpins
           \/ BoundaryEnergy' <= BoundaryEnergy]_vars

\* On the 4-cycle at T = 0.001 a proposal with delta_energy > 0 has just
\* been rejected on the draw 0.0 (exp underflows to 0.0), after an earlier
\* visit of the same sweep lowered the energy.
C6_Witness ==
    /\ VisitDone
    /\ graph = Cycle4
    /\ temperature = 1
    /\ delta_energy > 0
    /\ u = UBits + 1
    /\ spins = pre_spins
    /\ calculate_energy(graph, node_to_idx, spins)
           < calculate_energy(graph, node_to_idx, sweep_spins)

\* The edges whose end points carry equal spins, and the others.
AgreeingEdges(s) ==
    {e \in graph.edges :
        \A a \in e, b \in e : s[node_to_idx[a]] = s[node_to_idx[b]]}
DisagreeingEdges(s) == graph.edges \ AgreeingEdges(s)

AllUp(n) == [i \in 0..(n - 1) |-> 1]

\* C7: calculate_energy is -J times the sum of s_i * s_j over the edges,
\* each edge once; on the 4-cycle with all spins +1 it is -4, the energy
\* change of flipping node 0 is +4 and the energy after that flip is 0.
C7_EnergyCountsEachEdgeOnce ==
    pc # "new" =>
        /\ calculate_energy(graph, node_to_idx, spins) =
               -J * (Cardinality(AgreeingEdges(spins))
                     - Cardinality(DisagreeingEdges(spins)))
        /\ (graph = Cycle4 /\ spins = AllUp(4)) =>
               calculate_energy(graph, node_to_idx, spins) = -4
        /\ (graph = Cycle4 /\ pc = "mc_if" /\ node = 0
            /\ pre_spins = AllUp(4)) =>
               /\ current_energy = -4
               /\ delta_energy = 4
               /\ new_energy = 0
               /\ calculate_energy(graph, node_to_idx, spins) = 0

\* The trial flip of node 0 of the 4-cycle from all spins +1.
C7_Witness ==
    /\ graph = Cycle4
    /\ pc = "mc_if"
    /\ node = 0
    /\ pre_spins = AllUp(4)

\* Slot i has no neighbour.
Isolated(i) == NeighbourSlots(i) = {}

\* monte_carlo_step has visited every slot and is about to return.
SweepDone == pc = "mc_for" /\ node + 1 >= n_nodes /\ node >= 0

\* C8: the visit of a slot without neighbours computes delta_energy = 0 at
\* every temperature, draws nothing and leaves the slot negated; when
\* monte_carlo_step has visited every slot, each slot without neighbours is
\* the negation of what it was when the step began; and on the graph of one
\* node and no edge calculate_energy is 0.
C8_IsolatedNodeAlwaysFlips ==
    /\ (DeltaComputed /\ Isolated(node)) => delta_energy = 0
    /\ (VisitDone /\ Isolated(node)) =>
           /\ u = NoDraw
           /\ spins[node] = -pre_spins[node]
    /\ SweepDone =>
           \A i \in 0..(n_nodes - 1) :
               Isolated(i) => spins[i] = -sweep_spins[i]
    /\ (pc # "new" /\ n_nodes = 1 /\ graph.edges = {}) =>
           calculate_energy(graph, node_to_idx, spins) = 0

\* A sweep at T = 2.0 over three nodes is complete; slot 0 has no
\* neighbour and the other two share an edge.
C8_Witness ==
    /\ SweepDone
    /\ temperature = 2000
    /\ n_nodes = 3
    /\ Isolated(0)
    /\ ~Isolated(1)
    /\ spins[0] = -sweep_spins[0]

\* The node identifiers of the graph.
NodeSet == {graph.nodes[i] : i \in 1..Len(graph.nodes)}

\* C9: after construction node_to_idx maps the graph's nodes one-to-one
\* onto the slots 0..n_nodes-1 and idx_to_node is its inverse.
C9_NodeIndexBijection ==
    pc # "new" =>
        /\ DOMAIN node_to_idx = NodeSet
        /\ DOMAIN idx_to_node = 0..(n_nodes - 1)
        /\ \A v \in NodeSet : node_to_idx[v] \in 0..(n_nodes - 1)
        /\ \A v \in NodeSet : idx_to_node[node_to_idx[v]] = v
        /\ \A i \in 0..(n_nodes - 1) : node_to_idx[idx_to_node[i]] = i
        /\ \A v \in NodeSet, w \in NodeSet :
               node_to_idx[v] = node_to_idx[w] => v = w

\* A model constructed on three nodes listed in descending order: node 0
\* has slot 2.
C9_Witness ==
    /\ pc = "idle"
    /\ graph.nodes = Descending(3)
    /\ node_to_idx[0] = 2
    /\ idx_to_node[2] = 0

\* C10 (the claim as stated): on a graph with no nodes construction does
\* not complete, and what ends the call is InvalidGraphError.
C10_EmptyGraphRejected ==
    Len(graph.nodes) = 0 =>
        /\ pc \in {"new", "raised"}
        /\ pc = "raised" => err = "InvalidGraphError"

\* simulate has made the record of temperature ti and has not reset the
\* spins since: spins is the configuration that record was taken from.
RecordJustMade == pc \in {"sim_for", "returned"} /\ ti >= 1

\* C11: the three entries of a temperature's record come from one and the
\* same final configuration S: n_nodes times the energy entry is
\* calculate_energy(S), n_nodes times the magnetization entry is the
\* magnitude of the sum of S and n_nodes times the correlation entry is the
\* sum of S; so in every record the magnetization entry is the magnitude of
\* the correlation entry and lies between 0 and 1.
C11_RecordFromOneConfiguration ==
    /\ RecordJustMade =>
           /\ Len(energy_data) = ti
           /\ Len(magnetization_data) = ti
           /\ Len(correlation_data) = ti
           /\ energy_data[ti] =
                  [num |-> calculate_energy(graph, node_to_idx, spins),
                   den |-> n_nodes]
           /\ correlation_data[ti] =
                  [num |-> SumAt(0..(n_nodes - 1), spins), den |-> n_nodes]
           /\ magnetization_data[ti].den = n_nodes
           /\ magnetization_data[ti].num \in
                  {SumAt(0..(n_nodes - 1), spins),
                   -SumAt(0..(n_nodes - 1), spins)}
           /\ magnetization_data[ti].num >= 0
    /\ \A p \in 1..Len(magnetization_data) :
           /\ p <= Len(correlation_data)
           /\ magnetization_data[p].den = correlation_data[p].den
           /\ magnetization_data[p].num * magnetization_data[p].num =
                  correlation_data[p].num * correlation_data[p].num
           /\ 0 <= magnetization_data[p].num
           /\ magnetization_data[p].num <= magnetization_data[p].den

\* A record taken from two spins of -1 joined by an edge, after a sweep:
\* energy -1/2, correlation -2/2, magnetization 2/2.
C11_Witness ==
    /\ RecordJustMade
    /\ n_nodes = 2
    /\ steps_per_temperature >= 1
    /\ energy_data[ti] = [num |-> -1, den |-> 2]
    /\ correlation_data[ti] = [num |-> -2, den |-> 2]
    /\ magnetization_data[ti] = [num |-> 2, den |-> 2]

\* What simulate does for one temperature with k sweeps asked for: one
\* reset, k sweeps, one extraction.  TemperatureRunEvent(k, j) is the j-th
\* event of that run, j \in 1..(k + 2).
TemperatureRunEvent(k, j) ==
    IF j = 1 THEN "reset" ELSE IF j = k + 2 THEN "extract" ELSE "sweep"

\* The log is m whole temperature runs followed by the first r events of
\* the next one.
LogIs(log, k, m, r) ==
    /\ Len(log) = m * (k + 2) + r
    /\ \A p \in 1..Len(log) :
           log[p] = TemperatureRunEvent(k, ((p - 1) % (k + 2)) + 1)

\* Control is inside monte_carlo_step called by simulate.
InSimulateSweep == pc \in {"mc_for", "mc_if"} /\ caller = "simulate"

\* C12: for each temperature simulate performs exactly one reset, then
\* exactly steps_per_temperature complete sweeps, then exactly one
\* extraction, and nothing else; no reset falls inside a sweep or between
\* two sweeps of a temperature; and the reset does not carry the last
\* configuration over: every configuration of {-1, +1}^n can start the
\* next temperature, whatever the spins were.
C12_ResetSweepsExtract ==
    /\ pc \in {"sim_for", "returned"} =>
           LogIs(events, steps_per_temperature, ti, 0)
    /\ pc = "sim_steps" =>
           /\ ti >= 1
           /\ step <= steps_per_temperature
           /\ LogIs(events, steps_per_temperature, ti - 1, 1 + step)
    /\ InSimulateSweep =>
           /\ ti >= 1
           /\ step >= 1
           /\ step <= steps_per_temperature
           /\ LogIs(events, steps_per_temperature, ti - 1, step)
    /\ (pc = "sim_for" /\ ti < Len(temperatures)) =>
           \A c \in [0..(n_nodes - 1) -> {-1, 1}] :
               ENABLED (NextTemperature /\ spins' = c)

\* The second temperature of a two-sweep schedule starts on the edge graph
\* with the two spins opposed, the first having ended with them aligned.
C12_Witness ==
    /\ pc = "sim_steps"
    /\ ti = 2
    /\ step = 0
    /\ steps_per_temperature = 2
    /\ n_nodes = 2
    /\ energy_data[1].num = -1
    /\ calculate_energy(graph, node_to_idx, spins) = 1
    /\ events = <<"reset", "sweep", "sweep", "extract", "reset">>

\* The energy change of flipping slot i of s, from two full evaluations.
FlipDelta(s, i) ==
    calculate_energy(graph, node_to_idx,
                     [s EXCEPT ![i] = -s[i]])
        - calculate_energy(graph, node_to_idx, s)

\* C13: one monte_carlo_step visits the slots 0, 1, ..., n_nodes - 1 in
\* ascending order, each exactly once, and returns only after the last; the
\* visit of slot i changes no spin but spin i; and the energy change of the
\* visit of slot i is evaluated on the spins as they are when the visit
\* begins, with every flip accepted at the slots before i in place.
C13_SequentialVisits ==
    [][/\ (pc # "mc_for" /\ pc # "mc_if" /\ pc' = "mc_for") => node' = -1
       /\ (pc = "mc_for" /\ pc' = "mc_if") =>
              /\ node' = node + 1
              /\ node' \in 0..(n_nodes - 1)
              /\ current_energy' =
                     calculate_energy(graph, node_to_idx, spins)
              /\ delta_energy' = FlipDelta(spins, node')
              /\ \A j \in 0..(n_nodes - 1) :
                     j # node' => spins'[j] = spins[j]
       /\ pc = "mc_if" =>
              /\ pc' = "mc_for"
              /\ node' = node
              /\ \A j \in 0..(n_nodes - 1) :
                     j # node => spins'[j] = spins[j]
       /\ (pc = "mc_for" /\ pc' # "mc_for" /\ pc' # "mc_if") =>
              /\ node = n_nodes - 1
              /\ spins' = spins
    ]_vars

\* The visit of slot 1 on the path 0 - 1 - 2 after the flip of slot 0 was
\* kept: the energy change computed differs from the one the spins at the
\* start of the sweep would give.
C13_Witness ==
    /\ pc = "mc_if"
    /\ n_nodes = 3
    /\ node = 1
    /\ pre_spins[0] # sweep_spins[0]
    /\ delta_energy = FlipDelta(pre_spins, 1)
    /\ delta_energy # FlipDelta(sweep_spins, 1)

\* The outcome of the visit just decided: the flip was kept.  A downhill or
\* level proposal is always kept; an uphill one when the draw is below the
\* exponential.
Kept == delta_energy <= 0 \/ DrawBelowExp(u, delta_energy, temperature)

\* C15: given the reset configurations and the accept/reject outcomes of
\* the uphill proposals, simulate is deterministic: the trial configuration
\* and the energy change of a visit are functions of the spins before it
\* and the slot, the spins after the visit are a function of those and the
\* outcome, and a record is a function of the configuration it is taken
\* from; and a random draw is consumed only at a visit whose delta_energy
\* is > 0.
C15_DeterministicGivenOutcomes ==
    /\ DeltaComputed =>
           /\ delta_energy = FlipDelta(pre_spins, node)
           /\ u # NoDraw => pc = "mc_for" /\ delta_energy > 0
    /\ pc = "mc_if" =>
           spins = [pre_spins EXCEPT ![node] = -pre_spins[node]]
    /\ VisitDone =>
           /\ u # NoDraw <=> delta_energy > 0
           /\ spins = IF Kept
                          THEN [pre_spins EXCEPT ![node] = -pre_spins[node]]
                          ELSE pre_spins
    /\ RecordJustMade =>
           /\ energy_data[ti] =
                  Ratio(calculate_energy(graph, node_to_idx, spins), n_nodes)
           /\ magnetization_data[ti] =
                  Ratio(IF SumAt(0..(n_nodes - 1), spins) < 0
                            THEN -SumAt(0..(n_nodes - 1), spins)
                            ELSE SumAt(0..(n_nodes - 1), spins), n_nodes)
           /\ correlation_data[ti] =
                  Ratio(SumAt(0..(n_nodes - 1), spins), n_nodes)

\* In a sweep of simulate at T = 2.0 on the edge graph two draws gave two
\* outcomes: this visit's uphill proposal (delta_energy = 2) was rejected
\* on the draw 1/2.
C15_Witness ==
    /\ VisitDone
    /\ caller = "simulate"
    /\ temperature = 2000
    /\ delta_energy = 2
    /\ u = 1
    /\ ~Kept
    /\ spins = pre_spins

\* C16: no operation after construction (flip_spin, calculate_energy,
\* calculate_magnetization, monte_carlo_step, simulate) changes the graph's
\* nodes or edges, node_to_idx, idx_to_node or n_nodes: of the model's
\* attributes only the spin array is ever modified; and a call of
\* calculate_energy or calculate_magnetization modifies nothing at all, the
\* spin array included.
C16_OnlySpinsChange ==
    [][pc # "new" =>
          /\ graph' = graph
          /\ node_to_idx' = node_to_idx
          /\ idx_to_node' = idx_to_node
          /\ n_nodes' = n_nodes
          /\ result' # NoResult =>
                 /\ spins' = spins
                 /\ pc' = pc
                 /\ UNCHANGED stepVars
                 /\ UNCHANGED simVars
    ]_vars

\* calculate_magnetization() has returned -2 on two spins of -1 joined by
\* an edge, and the spins are still both -1.
C16_Witness ==
    /\ pc = "idle"
    /\ n_nodes = 2
    /\ graph.edges = {{0, 1}}
    /\ result = [op |-> "calculate_magnetization", value |-> -2]
    /\ spins = [i \in 0..1 |-> -1]

\* A temperature run of thread t is open: its reset is done and its record
\* is not yet appended.
RunOpen(t) == calls[t].pc \notin {"none", "sim_for", "returned", "raised"}

\* C14 (the claim as stated): with two calls of simulate on one model
\* interleaved, between the reset of a temperature run and the extraction
\* of its record no step of the other call changes the spins that run
\* reads.
C14_SpinsOwnedByOneRun ==
    [][\A t \in Threads :
           (RunOpen(t) /\ calls'[t] = calls[t]) => spins' = spins
    ]_vars

\* C17 (the claim as stated): identify_susceptible_users returns exactly
\* the nodes whose ising_energy value is below the threshold, each mapped
\* to that value: no node with energy below the threshold is left out and
\* none with energy at or above it is included.
C17_SusceptibleIsBelowThreshold ==
    susc.pc = "returned" =>
        /\ DOMAIN susc.susceptible =
               {v \in DOMAIN susc.energy :
                   2 * susc.energy[v] < susc.threshold2}
        /\ \A v \in DOMAIN susc.susceptible :
               susc.susceptible[v] = susc.energy[v]

\* The one a comment of the list replies to: its parent comment's author,
\* or the post's author for a top-level comment.
RepliesTo(c) ==
    IF c.parent # 0 THEN NameOf(scrape.comments[c.parent].author)
    ELSE NameOf(scrape.author)

\* The comment is kept: neither its author, nor its text, nor the one it
\* replies to is "[deleted]".
NotFiltered(c) ==
    /\ NameOf(c.author) # "[deleted]"
    /\ c.body # "[deleted]"
    /\ RepliesTo(c) # "[deleted]"

\* C18 (the claim as stated): fetch_comments filters out deleted users and
\* deleted comments: whatever the post (its author deleted or not) and the
\* comment tree, no record has user, replying_to or comment equal to
\* "[deleted]", and the records returned are one for each comment that is
\* not filtered, in the order of post.comments.list().
C18_NoDeletedInRecords ==
    /\ \A p \in 1..Len(scrape.comments_data) :
           /\ scrape.comments_data[p].user # "[deleted]"
           /\ scrape.comments_data[p].replying_to # "[deleted]"
           /\ scrape.comments_data[p].comment # "[deleted]"
    /\ scrape.pc = "returned" =>
           LET kept == SelectSeq(scrape.comments, NotFiltered)
           IN  /\ Len(scrape.comments_data) = Len(kept)
               /\ \A p \in 1..Len(kept) :
                      /\ scrape.comments_data[p].user = kept[p].author
                      /\ scrape.comments_data[p].comment = kept[p].body
                      /\ scrape.comments_data[p].replying_to =
                             RepliesTo(kept[p])

=============================================================================
